---- MODULE Spec2Model ----
(***************************************************************************)
(* The resume-evaluation endpoints of api/: index.py, analyze-resume.py,   *)
(* analyze.py, evaluate.py and main.py.                                    *)
(*                                                                         *)
(* Representation.                                                         *)
(*  - A Python str whose characters matter (skills, texts) is a sequence   *)
(*    of atoms.  An atom is " " (one blank), "," (one comma) or a run of   *)
(*    other characters (a word, or a single letter): "" is <<>> and        *)
(*    "Shortlist" is <<"Shortlist">>.                                      *)
(*  - A number is an integer count of hundredths: 80 is 8000, 69.23 is     *)
(*    6923.  Every float the handlers compute has at most two decimals.    *)
(*  - A request text is [head, tail]: head is what its first 1000          *)
(*    characters hold, tail says whether the text goes on after them.      *)
(*  - A JSON object is a function from the keys it holds to JSON values    *)
(*    [t |-> "num"|"str"|"list"|"null", v |-> ...].                        *)
(***************************************************************************)
EXTENDS Integers, Sequences, FiniteSets, TLC

VARIABLES
    OPENAI_API_KEY, \* index.py: TRUE iff the environment variable is set
    cache,          \* index.py: lru_cache of cached_gpt_evaluate, most recent first
    given,          \* the texts (jd, resume) a run of Spec/SpecFallback/SpecSkills sends
    req,            \* the last request: handler, method, jd, resume, service outcome
    resp,           \* the response the last request got
    called,         \* TRUE iff the last request called the text-generation service
    decided,        \* the scores the last request passed to decide_recommendation
    first,          \* per cache key: the response of the first request with that key
    produced,       \* per cache key: the response of the request that last ran cached_gpt_evaluate for it
    since           \* per cache key: the other keys requested since the key was last requested

vars == <<OPENAI_API_KEY, cache, given, req, resp, called, decided, first, produced, since>>

----------------------------------------------------------------------------
(* Bounds of the model *)

\* lru_cache(maxsize=128) of index.py, scaled down: the number of entries the cache holds
maxsize == 2
\* the longest comma-separated skill string the service returns, in characters
MaxSkillChars == 2
\* the longest skill list the service returns
MaxSkillItems == 2

----------------------------------------------------------------------------
(* Numbers, in hundredths *)

H(n) == n * 100

\* round(a / b) to the nearest integer, ties to the even one (Python 3 round)
RoundDiv(a, b) ==
    LET q == a \div b
        r == a % b
    IN  IF 2 * r < b THEN q
        ELSE IF 2 * r > b THEN q + 1
        ELSE IF q % 2 = 0 THEN q ELSE q + 1

\* round(x) of a float x given in hundredths: an int
PyRound(h) == RoundDiv(h, 100)

\* int(x) of a float x given in hundredths: truncation toward zero
PyInt(h) == IF h >= 0 THEN h \div 100 ELSE -((-h) \div 100)

Max(a, b) == IF a >= b THEN a ELSE b
Min(a, b) == IF a <= b THEN a ELSE b

----------------------------------------------------------------------------
(* Strings as sequences of atoms *)

SP == " "
CM == ","
Shortlist == <<"Shortlist">>
Reject == <<"Reject">>
Consider == <<"Consider">>
Maybe == <<"Maybe">>
IsSep(a) == a \in {SP, CM}

\* str.lower() on the atoms the texts of the model use
LowerTable ==
    ("Python" :> "python") @@ ("PYTHON" :> "python") @@ ("Java" :> "java") @@
    ("C++" :> "c++") @@ ("C++11" :> "c++11") @@ ("Machine" :> "machine") @@
    ("Learning" :> "learning") @@ ("AI" :> "ai") @@ ("FastAPI" :> "fastapi") @@
    ("DevOps" :> "devops") @@ ("Generative" :> "generative") @@
    ("Agentic" :> "agentic") @@ ("Sales" :> "sales") @@
    ("Understanding" :> "understanding") @@ ("Communicating" :> "communicating") @@
    ("Building" :> "building") @@ ("Nurturing" :> "nurturing") @@
    ("Closing" :> "closing") @@ ("Required" :> "required")

Lower(a) == IF a \in DOMAIN LowerTable THEN LowerTable[a] ELSE a

RECURSIVE LStrip(_)
LStrip(s) == IF s # <<>> /\ Head(s) = SP THEN LStrip(Tail(s)) ELSE s

RECURSIVE RStrip(_)
RStrip(s) == IF s # <<>> /\ s[Len(s)] = SP THEN RStrip(SubSeq(s, 1, Len(s) - 1)) ELSE s

\* s.strip()
Strip(s) == RStrip(LStrip(s))

\* s.split(","): never empty, "" splits into [""]
RECURSIVE Split(_)
Split(s) ==
    IF \A i \in 1..Len(s) : s[i] # CM THEN <<s>>
    ELSE LET i == CHOOSE i \in 1..Len(s) : s[i] = CM /\ \A j \in 1..(i - 1) : s[j] # CM
         IN  <<SubSeq(s, 1, i - 1)>> \o Split(SubSeq(s, i + 1, Len(s)))

\* ", ".join(items)
RECURSIVE Join(_)
Join(items) ==
    IF items = <<>> THEN <<>>
    ELSE IF Len(items) = 1 THEN items[1]
    ELSE items[1] \o <<CM, SP>> \o Join(Tail(items))

\* [f(x) for x in items if keep(x)] for the two comprehensions the handlers use
RECURSIVE StripNonEmpty(_)
StripNonEmpty(items) ==
    IF items = <<>> THEN <<>>
    ELSE (IF Strip(Head(items)) # <<>> THEN <<Strip(Head(items))>> ELSE <<>>)
         \o StripNonEmpty(Tail(items))

RECURSIVE Filter(_, _)
Filter(items, keep) ==
    IF items = <<>> THEN <<>>
    ELSE (IF Head(items) \in keep THEN <<Head(items)>> ELSE <<>>) \o Filter(Tail(items), keep)

Range(f) == {f[i] : i \in DOMAIN f}

----------------------------------------------------------------------------
(* Request texts *)

Text(head, tail) == [head |-> head, tail |-> tail]

\* data.jd[:1000]
Truncate(t) == Text(t.head, FALSE)

\* not jd
IsEmptyText(t) == t.head = <<>> /\ ~t.tail

----------------------------------------------------------------------------
(* JSON values and objects, as json.loads returns them *)

Num(h) == [t |-> "num", v |-> h]
Str(s) == [t |-> "str", v |-> s]
List(items) == [t |-> "list", v |-> items]
Null == [t |-> "null", v |-> 0]

\* dict.get(key, default): a key that holds null gives None, not the default
Has(obj, key) == key \in DOMAIN obj
Get(obj, key, default) == IF Has(obj, key) THEN obj[key] ELSE default

\* float(x): [ok, v]; a str is parsed ("85" is the one numeric str of the model),
\* None and a list raise TypeError, "abc" ValueError
PyFloat(x) ==
    IF x.t = "num" THEN [ok |-> TRUE, v |-> x.v]
    ELSE IF x.t = "str" /\ x.v = <<"85">> THEN [ok |-> TRUE, v |-> H(85)]
    ELSE [ok |-> FALSE, v |-> 0]

\* int(x): [ok, v], v in hundredths; a float is truncated, a str must be an integer literal
PyIntOf(x) ==
    IF x.t = "num" THEN [ok |-> TRUE, v |-> H(PyInt(x.v))]
    ELSE IF x.t = "str" /\ x.v = <<"85">> THEN [ok |-> TRUE, v |-> H(85)]
    ELSE [ok |-> FALSE, v |-> 0]

----------------------------------------------------------------------------
(* Responses *)

NoSummary == <<>>

Response(status, code, score, matched, missing, summary, recommendation) ==
    [status |-> status, code |-> code, Score |-> score, SkillsetMatch |-> matched,
     MissingSkills |-> missing, Summary |-> summary, Recommendation |-> recommendation]

\* {"error": ...} with the given HTTP status
ErrorResponse(code) == Response("error", code, 0, <<>>, <<>>, NoSummary, <<>>)

\* an exception no handler catches: the framework answers 500
Crash == Response("crash", 500, 0, <<>>, <<>>, NoSummary, <<>>)

NoResponse == Response("none", 0, 0, <<>>, <<>>, NoSummary, <<>>)

----------------------------------------------------------------------------
(* index.py *)

\* default_response(): every field empty, Recommendation ""
default_response == Response("ok", 200, 0, <<>>, <<>>, NoSummary, <<>>)

\* text.lower().count(k)
RECURSIVE Count(_, _)
Count(text, k) ==
    IF text = <<>> THEN 0
    ELSE (IF Lower(Head(text)) = k THEN 1 ELSE 0) + Count(Tail(text), k)

RECURSIVE SumCounts(_, _)
SumCounts(text, keywords) ==
    IF keywords = <<>> THEN 0
    ELSE Count(text, Head(keywords)) + SumCounts(text, Tail(keywords))

must_keywords == <<"must-have", "required", "essential", "mandatory">>
nice_keywords == <<"nice-to-have", "desirable", "optional", "preferable">>

dynamic_weight(skill_text) ==
    LET must_count == SumCounts(skill_text, must_keywords)
        nice_count == SumCounts(skill_text, nice_keywords)
        total == must_count + nice_count
    IN  IF total = 0
        THEN [must_have_weight |-> H(50), nice_to_have_weight |-> H(20)]
        ELSE [must_have_weight |-> RoundDiv(H(70) * must_count, total),
              nice_to_have_weight |-> RoundDiv(H(30) * nice_count, total)]

\* score_benchmarks, in the order the dict is iterated
score_benchmarks ==
    << [decision |-> "Strong Shortlist", low |-> 85, high |-> 100],
       [decision |-> "Shortlist", low |-> 70, high |-> 84],
       [decision |-> "Borderline", low |-> 50, high |-> 69],
       [decision |-> "Reject", low |-> 0, high |-> 49] >>

\* the first band that holds the score decides; a score in no band is rejected
RECURSIVE DecideFrom(_, _)
DecideFrom(bands, score) ==
    IF bands = <<>> THEN Reject
    ELSE IF H(Head(bands).low) <= score /\ score <= H(Head(bands).high)
         THEN (IF Head(bands).decision # "Reject" THEN Shortlist ELSE Reject)
         ELSE DecideFrom(Tail(bands), score)

decide_recommendation(score) == DecideFrom(score_benchmarks, score)

\* one "<bullet> <span style='color:..'>skill</span><br>" per skill (the bullet written *)
RECURSIVE Bullets(_, _)
Bullets(skills, colour) ==
    IF skills = <<>> THEN <<>>
    ELSE <<"* <span style='color:", colour, "'>">> \o Head(skills) \o <<"</span><br>">>
         \o Bullets(Tail(skills), colour)

format_summary_html(matched_skills, missing_skills, reasoning_text) ==
    LET matched_html == Bullets(matched_skills, "green")
        missing_html == Bullets(missing_skills, "red")
    IN  <<"<b>Matched Skills:</b><br>">>
        \o (IF matched_html # <<>> THEN matched_html ELSE <<"None<br>">>)
        \o <<"<b>Missing Skills:</b><br>">>
        \o (IF missing_html # <<>> THEN missing_html ELSE <<"None<br>">>)
        \o (IF reasoning_text # <<>> THEN <<"<b>Reasoning:</b><br>">> \o reasoning_text ELSE <<>>)

common_skills ==
    << <<"Python">>, <<"Java">>, <<"C++">>, <<"Machine", SP, "Learning">>, <<"AI">>,
       <<"FastAPI">>, <<"DevOps">>, <<"Generative", SP, "AI">>, <<"Agentic", SP, "AI">>,
       <<"Sales", SP, "experience">>, <<"Understanding", SP, "client", SP, "needs">>,
       <<"Communicating", SP, "product", SP, "value">>,
       <<"Building", SP, "sales", SP, "pipelines">>, <<"Nurturing", SP, "leads">>,
       <<"Closing", SP, "deals">> >>

\* the atoms that are the given atom followed by more word characters
WordContinuations(a) == IF a = "c++" THEN {"c++11"} ELSE {}

\* an atom that ends in a word character (\w); "C++" does not
EndsInWordChar(a) == Lower(a) # "c++"

\* re.search(rf"\b{re.escape(skill)}\b", text, re.IGNORECASE) matching at atom i:
\* the atoms agree up to case, a word boundary before the first and after the last
MatchAt(skill, text, i) ==
    LET n == Len(skill)
        last == text[i + n - 1]
    IN  /\ i + n - 1 <= Len(text)
        /\ i = 1 \/ IsSep(text[i - 1])
        /\ \A j \in 1..(n - 1) : Lower(text[i + j - 1]) = Lower(skill[j])
        /\ IF EndsInWordChar(skill[n])
           THEN /\ Lower(last) = Lower(skill[n])
                /\ i + n - 1 = Len(text) \/ IsSep(text[i + n])
           ELSE Lower(last) \in WordContinuations(Lower(skill[n]))

Found(skill, text) == \E i \in 1..Len(text) : MatchAt(skill, text, i)

fallback_skills(text) == Filter(common_skills, {skill \in Range(common_skills) : Found(skill, text)})

----------------------------------------------------------------------------
(* The text-generation service: what one call of chat.completions.create does *)

EmptyObj == [k \in {} |-> Null]

\* kind: "fail"      the call raises (network error, timeout, non-2xx)
\*       "nocontent" the message has no content (None)
\*       "empty"     the content is blank
\*       "prose"     the content holds no brace
\*       "badjson"   the content holds braces that are not JSON
\*       "json"      the content holds the JSON object obj: alone ("bare"), in a
\*                   ```json fence ("fenced") or with prose around it ("prose")
Outcome(kind, wrap, obj) == [kind |-> kind, wrap |-> wrap, obj |-> obj]
Fails == Outcome("fail", "bare", EmptyObj)
NoContent == Outcome("nocontent", "bare", EmptyObj)
Blank == Outcome("empty", "bare", EmptyObj)
Prose == Outcome("prose", "bare", EmptyObj)
BadJson == Outcome("badjson", "bare", EmptyObj)
Json(wrap, obj) == Outcome("json", wrap, obj)

\* a JSON object of the given fields; Absent leaves the key out
Absent == [t |-> "absent", v |-> 0]
Object(score, recommendation, matched, missing, summary) ==
    LET all == ("Score" :> score) @@ ("Recommendation" :> recommendation) @@
               ("SkillsetMatch" :> matched) @@ ("MissingSkills" :> missing) @@
               ("Summary" :> summary)
        keys == {k \in DOMAIN all : all[k].t # "absent"}
    IN  [k \in keys |-> all[k]]

----------------------------------------------------------------------------
(* index.py: cached_gpt_evaluate under functools.lru_cache *)

\* None
None == Outcome("none", "bare", EmptyObj)

\* the body of cached_gpt_evaluate: the stripped content, None on any exception
\* (content None has no strip())
cached_gpt_evaluate(svc) == IF svc.kind \in {"fail", "nocontent"} THEN None ELSE svc

CacheKey(jd_text, resume_text, must_weight, nice_weight) ==
    <<jd_text, resume_text, must_weight, nice_weight>>

CacheIndex(c, key) ==
    IF \E i \in 1..Len(c) : c[i].key = key
    THEN CHOOSE i \in 1..Len(c) : c[i].key = key
    ELSE 0

\* a hit makes the entry the most recently used
LruTouch(c, i) == <<c[i]>> \o SubSeq(c, 1, i - 1) \o SubSeq(c, i + 1, Len(c))

\* a full cache drops its least recently used entry for the new one
LruStoreEvictsNewest(c, entry) ==
    IF Len(c) >= maxsize THEN <<entry>> \o Tail(c) ELSE <<entry>> \o c

\* a miss stores the result, None included
LruStore(c, entry) ==
    IF Len(c) >= maxsize THEN <<entry>> \o SubSeq(c, 1, Len(c) - 1) ELSE <<entry>> \o c

\* cached_gpt_evaluate(...) through the lru_cache wrapper
LruCall(c, key, svc) ==
    LET i == CacheIndex(c, key)
    IN  IF i # 0
        THEN [out |-> c[i].out, cache |-> LruTouch(c, i), called |-> FALSE]
        ELSE LET out == cached_gpt_evaluate(svc)
             IN  [out |-> out, cache |-> LruStore(c, [key |-> key, out |-> out]),
                  called |-> TRUE]

----------------------------------------------------------------------------
(* index.py: analyze_resume *)

Result(r, c, didCall, score) == [resp |-> r, cache |-> c, called |-> didCall, decided |-> score]

\* lines 167-184: the keyword-overlap result
FallbackResult(jd_text, resume_text) ==
    LET jd_skills == fallback_skills(jd_text.head)
        candidate_skills == fallback_skills(resume_text.head)
        matching == Filter(candidate_skills, Range(jd_skills))
        missing == Filter(jd_skills, Range(common_skills) \ Range(candidate_skills))
        score == RoundDiv(H(100) * Len(matching), Max(1, Len(jd_skills)))
        summary == format_summary_html(matching, missing,
                       <<"Fallback: GPT unavailable, basic skill matching used.">>)
    IN  [resp |-> Response("ok", 200, score, Join(matching), Join(missing), summary,
                           decide_recommendation(score)),
         decided |-> {score}]

\* lines 198-201: a key that is missing or null gets "" (0 for Score)
Ensure(obj, key) ==
    IF Has(obj, key) /\ obj[key].t # "null" THEN obj[key]
    ELSE IF key = "Score" THEN Num(0) ELSE Str(<<>>)

\* lines 204-216: a list is joined as it is, anything else is split at commas
SkillField(v) ==
    IF v.t = "list"
    THEN IF \A i \in 1..Len(v.v) : v.v[i].t = "str"
         THEN LET items == [i \in 1..Len(v.v) |-> v.v[i].v]
              IN  [ok |-> TRUE, skills |-> items, joined |-> Join(items)]
         ELSE [ok |-> FALSE, skills |-> <<>>, joined |-> <<>>]
    ELSE LET items == StripNonEmpty(Split(v.v))
         IN  [ok |-> TRUE, skills |-> items, joined |-> Join(items)]

\* lines 223-226
NormalizeScore(x) ==
    LET f == PyFloat(x)
    IN  IF f.ok THEN H(Max(0, Min(100, PyRound(f.v)))) ELSE 0

\* lines 198-234: the parsed object made into the response
Normalize(obj) ==
    LET matched == SkillField(Ensure(obj, "SkillsetMatch"))
        missing == SkillField(Ensure(obj, "MissingSkills"))
        reasoning_text == Ensure(obj, "Summary").v
        score == NormalizeScore(Ensure(obj, "Score"))
        given_rec == Ensure(obj, "Recommendation")
        keep == given_rec.t = "str" /\ given_rec.v \in {Shortlist, Reject}
    IN  IF ~matched.ok \/ ~missing.ok THEN [resp |-> Crash, decided |-> {}]
        ELSE [resp |-> Response("ok", 200, score, matched.joined, missing.joined,
                          format_summary_html(matched.skills, missing.skills, reasoning_text),
                          IF keep THEN given_rec.v ELSE decide_recommendation(score)),
              decided |-> IF keep THEN {} ELSE {score}]

analyze_resume(key_set, c, data, svc) ==
    IF ~key_set THEN Result(ErrorResponse(200), c, FALSE, {})
    ELSE
    LET jd_text == Truncate(data.jd)
        resume_text == Truncate(data.resume)
        weights == dynamic_weight(jd_text.head)
        key == CacheKey(jd_text, resume_text, weights.must_have_weight,
                        weights.nice_to_have_weight)
        got == LruCall(c, key, svc)
        raw_output == got.out
    IN  IF raw_output.kind \in {"none", "empty"}
        THEN LET fb == FallbackResult(jd_text, resume_text)
             IN  Result(fb.resp, got.cache, got.called, fb.decided)
        ELSE IF raw_output.kind \in {"prose", "badjson"}
        THEN Result(default_response, got.cache, got.called, {})
        ELSE LET n == Normalize(raw_output.obj)
             IN  Result(n.resp, got.cache, got.called, n.decided)

----------------------------------------------------------------------------
(* analyze-resume.py: analyze_resume; nothing is caught *)

\* json.loads(response.choices[0].message.content)
AnalyzeResumePy_loads(svc) == svc.kind = "json" /\ svc.wrap = "bare"

AnalyzeResumePy_analyze_resume(svc) ==
    IF svc.kind = "fail" \/ ~AnalyzeResumePy_loads(svc) THEN Crash
    ELSE LET result == svc.obj
             n == PyIntOf(Get(result, "Score", Num(0)))
             given_rec == Get(result, "Recommendation", Null)
             keep == given_rec.t = "str" /\ given_rec.v \in {Shortlist, Reject}
         IN  IF ~n.ok THEN Crash
             ELSE Response("ok", 200, Max(0, Min(H(100), n.v)), <<>>, <<>>, NoSummary,
                           IF keep THEN given_rec.v ELSE Reject)

----------------------------------------------------------------------------
(* analyze.py: analyze_resume *)

AnalyzePy_default_response == Response("ok", 200, 0, <<>>, <<>>, NoSummary, Reject)

\* client.chat.completions of the OpenAI client has no acreate: the lookup raises
\* AttributeError inside the try, before any call, and the handler answers the default
AnalyzePy_analyze_resume == AnalyzePy_default_response

----------------------------------------------------------------------------
(* evaluate.py: handler, and main.py: evaluate *)

EvaluatePy_decide_recommendation(score) ==
    IF score >= H(75) THEN Shortlist
    ELSE IF score >= H(50) THEN Consider
    ELSE Reject

\* ai_output.replace("```json", "").replace("```", "").strip(), then json.loads
EvaluatePy_loads(svc) == svc.kind = "json" /\ svc.wrap \in {"bare", "fenced"}

\* lines 40-105 of evaluate.py, 42-102 of main.py: [resp, called, decided]
EvaluatePy_body(jd, resume, svc) ==
    IF IsEmptyText(jd) \/ IsEmptyText(resume)
    THEN [resp |-> ErrorResponse(400), called |-> FALSE, decided |-> {}]
    ELSE IF svc.kind = "fail" \/ ~EvaluatePy_loads(svc)
    THEN [resp |-> ErrorResponse(500), called |-> TRUE, decided |-> {}]
    ELSE LET parsed == svc.obj
             n == PyIntOf(Get(parsed, "Score", Num(0)))
         IN  IF ~n.ok
             THEN [resp |-> ErrorResponse(500), called |-> TRUE, decided |-> {}]
             ELSE [resp |-> Response("ok", 200, n.v, <<>>, <<>>, NoSummary,
                                     EvaluatePy_decide_recommendation(n.v)),
                   called |-> TRUE, decided |-> {n.v}]

EvaluatePy_handler(method, jd, resume, svc) ==
    IF method # "POST"
    THEN [resp |-> ErrorResponse(405), called |-> FALSE, decided |-> {}]
    ELSE EvaluatePy_body(jd, resume, svc)

MainPy_evaluate(jd, resume, svc) == EvaluatePy_body(jd, resume, svc)

----------------------------------------------------------------------------
(* Requests *)

Data(jd, resume) == [jd |-> jd, resume |-> resume]

\* known: the request's cache key was requested before; gap: how many distinct other
\* keys were requested since then (both only of index.py, configured)
Request(handler, method, data, svc, known, gap) ==
    [handler |-> handler, method |-> method, jd |-> data.jd, resume |-> data.resume,
     svc |-> svc, known |-> known, gap |-> gap]

\* the key analyze_resume of index.py passes to cached_gpt_evaluate
RequestKey(data) ==
    LET weights == dynamic_weight(Truncate(data.jd).head)
    IN  CacheKey(Truncate(data.jd), Truncate(data.resume), weights.must_have_weight,
                 weights.nice_to_have_weight)

NoHistory == [k \in {} |-> NoResponse]
NoKeys == [k \in {} |-> {}]

\* one POST / to index.py
IndexRequest(data, svc) ==
    \E r \in {analyze_resume(OPENAI_API_KEY, cache, data, svc)}, key \in {RequestKey(data)} :
    LET known == OPENAI_API_KEY /\ key \in DOMAIN since
        gap == IF known THEN Cardinality(since[key]) ELSE 0
    IN  /\ cache' = r.cache
        /\ req' = Request("index", "POST", data, svc, known, gap)
        /\ resp' = r.resp
        /\ called' = r.called
        /\ decided' = r.decided
        /\ first' = IF OPENAI_API_KEY /\ key \notin DOMAIN first
                    THEN (key :> r.resp) @@ first ELSE first
        /\ produced' = IF r.called THEN (key :> r.resp) @@ produced ELSE produced
        /\ since' = IF OPENAI_API_KEY
                    THEN [k \in DOMAIN since \cup {key} |->
                             IF k = key THEN {} ELSE since[k] \cup {key}]
                    ELSE since
        /\ UNCHANGED <<OPENAI_API_KEY, given>>

\* one request to a handler that keeps no state
Stateless(handler, method, data, svc, answer) ==
    \E r \in {answer} :
    /\ req' = Request(handler, method, data, svc, FALSE, 0)
    /\ resp' = r.resp
    /\ called' = r.called
    /\ decided' = r.decided
    /\ UNCHANGED <<OPENAI_API_KEY, cache, given, first, produced, since>>

EmptyText == Text(<<>>, FALSE)
NoRequest == Request("none", "POST", Data(EmptyText, EmptyText), Fails, FALSE, 0)

\* the state of a fresh process that is to send the texts of todo
Fresh(key_set, todo) ==
    /\ OPENAI_API_KEY = key_set
    /\ cache = <<>>
    /\ given = todo
    /\ req = NoRequest
    /\ resp = NoResponse
    /\ called = FALSE
    /\ decided = {}
    /\ first = NoHistory
    /\ produced = NoHistory
    /\ since = NoKeys

----------------------------------------------------------------------------
(* Spec: one pair of texts, sent to any handler, with any service outcome *)

JdText == <<"Python", SP, "Java", SP, "Required">>
ResumeText == <<"PYTHON", CM, SP, "C++", SP, "Generative", SP, "AI">>

Requests ==
    {Data(EmptyText, Text(ResumeText, FALSE)), Data(Text(JdText, FALSE), EmptyText),
     Data(Text(JdText, FALSE), Text(ResumeText, FALSE)),
     Data(Text(JdText, TRUE), Text(ResumeText, TRUE))}

Scores == {Num(H(150)), Num(H(-10)), Num(H(80)), Str(<<"abc">>)}
Recommendations == {Str(Maybe), Str(Reject)}
SomeSkills == Str(<<"Python", CM, "Java">>)

Outcomes ==
    {Fails, NoContent, Blank, Prose, BadJson}
    \cup {Json("bare", Object(s, r, SomeSkills, Absent, Absent)) :
              s \in Scores, r \in Recommendations}
    \cup {Json(w, Object(Num(H(80)), Str(Maybe), SomeSkills, Absent, Absent)) :
              w \in {"fenced", "prose"}}

Init == \E key_set \in BOOLEAN, todo \in Requests : Fresh(key_set, todo)

Index == \E svc \in Outcomes : IndexRequest(given, svc)

AnalyzeResume ==
    \E svc \in Outcomes :
        Stateless("analyze-resume", "POST", given, svc,
                  [resp |-> AnalyzeResumePy_analyze_resume(svc), called |-> TRUE,
                   decided |-> {}])

Analyze ==
    \E svc \in Outcomes :
        Stateless("analyze", "POST", given, svc,
                  [resp |-> AnalyzePy_analyze_resume, called |-> FALSE, decided |-> {}])

Evaluate ==
    \E svc \in Outcomes, method \in {"POST", "GET"} :
        Stateless("evaluate", method, given, svc,
                  EvaluatePy_handler(method, given.jd, given.resume, svc))

Main ==
    \E svc \in Outcomes :
        Stateless("main", "POST", given, svc, MainPy_evaluate(given.jd, given.resume, svc))

Next == Index \/ AnalyzeResume \/ Analyze \/ Evaluate \/ Main

Spec == Init /\ [][Next]_vars

----------------------------------------------------------------------------
(* SpecFallback: index.py with the service down, over texts that name skills *)

\* the first n skills of common_skills, as a comma-separated text
RECURSIVE Mention(_)
Mention(n) ==
    IF n = 0 THEN <<>>
    ELSE IF n = 1 THEN common_skills[1]
    ELSE Mention(n - 1) \o <<CM, SP>> \o common_skills[n]

SkillTexts ==
    {Text(Mention(n), FALSE) : n \in 0..Len(common_skills)}
    \cup {Text(JdText, FALSE), Text(ResumeText, FALSE), Text(<<"C++11", SP, "Agentic", SP, "AI">>, FALSE)}

InitFallback == \E jd \in SkillTexts, resume \in SkillTexts : Fresh(TRUE, Data(jd, resume))

Fallback == \E svc \in {Fails, NoContent, Blank} : IndexRequest(given, svc)

NextFallback == Fallback

SpecFallback == InitFallback /\ [][NextFallback]_vars

----------------------------------------------------------------------------
(* SpecSkills: index.py with the service returning skills in every form, the same  *)
(* value as SkillsetMatch and as MissingSkills                                     *)

\* every str of at most n characters over "a", " " and ","
RECURSIVE SkillStrings(_)
SkillStrings(n) ==
    IF n = 0 THEN {<<>>}
    ELSE SkillStrings(n - 1) \cup
         {<<c>> \o s : c \in {"a", SP, CM}, s \in {t \in SkillStrings(n - 1) : Len(t) = n - 1}}

\* every list of at most n items: a clean str, a padded one, an empty one, a number
SkillItems == {Str(<<"a">>), Str(<<SP, "a">>), Str(<<>>), Num(H(1))}
RECURSIVE SkillLists(_)
SkillLists(n) ==
    IF n = 0 THEN {<<>>}
    ELSE SkillLists(n - 1) \cup
         {<<x>> \o l : x \in SkillItems, l \in {t \in SkillLists(n - 1) : Len(t) = n - 1}}

SkillValues ==
    {Str(s) : s \in SkillStrings(MaxSkillChars)} \cup {List(l) : l \in SkillLists(MaxSkillItems)}
    \cup {Null, Absent}

SkillOutcomes ==
    {Json("bare", Object(Str(<<"85">>), Absent, m, m, Str(<<"Good">>))) : m \in SkillValues}

InitSkills == Fresh(TRUE, Data(Text(JdText, FALSE), Text(ResumeText, FALSE)))

Skills == \E svc \in SkillOutcomes : IndexRequest(given, svc)

NextSkills == Skills

SpecSkills == InitSkills /\ [][NextSkills]_vars

----------------------------------------------------------------------------
(* SpecCache: index.py serving any sequence of requests *)

\* four keys: the first two requests differ after the 1000th character only
CacheRequests ==
    {Data(Text(<<"Java">>, FALSE), Text(<<"Java">>, FALSE)),
     Data(Text(<<"Java">>, TRUE), Text(<<"Java">>, TRUE)),
     Data(Text(<<"Java", SP, "Required">>, FALSE), Text(<<"AI">>, FALSE)),
     Data(EmptyText, EmptyText),
     Data(EmptyText, Text(<<"AI">>, FALSE))}

CacheOutcomes == {Fails, Json("prose", Object(Num(H(80)), Str(Maybe), SomeSkills, Absent, Absent))}

InitCache == Fresh(TRUE, Data(EmptyText, EmptyText))

Cached == \E data \in CacheRequests, svc \in CacheOutcomes : IndexRequest(data, svc)

NextCache == Cached

SpecCache == InitCache /\ [][NextCache]_vars

----------------------------------------------------------------------------
(* Claims checked under Spec *)

Evaluated == resp.status = "ok"
ServedJson == called /\ req.svc.kind = "json" /\ req.svc.wrap = "bare"
ServedScore(x) == ServedJson /\ Has(req.svc.obj, "Score") /\ req.svc.obj["Score"] = x

\* C1: in every handler, a success response carries a Score s with 0 <= s <= 100,
\* whatever Score the service returned.
C1_ScoreWithinRange == Evaluated => 0 <= resp.Score /\ resp.Score <= H(100)

\* C2: every evaluation index.py returns has Recommendation "Shortlist" or "Reject",
\* every evaluation of evaluate.py and main.py "Shortlist", "Consider" or "Reject";
\* no other string, the empty one included.
C2_RecommendationInEnum ==
    Evaluated =>
        /\ req.handler = "index" => resp.Recommendation \in {Shortlist, Reject}
        /\ req.handler \in {"evaluate", "main"} =>
               resp.Recommendation \in {Shortlist, Consider, Reject}

\* C3: index.py, analyze-resume.py and analyze.py answer a service Score of 150 with
\* Score 100, of -10 with 0, and of "abc" with 0, in a normal response.
C3_ScoreNormalization ==
    req.handler \in {"index", "analyze-resume", "analyze"} =>
        /\ ServedScore(Num(H(150))) => Evaluated /\ resp.Score = H(100)
        /\ ServedScore(Num(H(-10))) => Evaluated /\ resp.Score = 0
        /\ ServedScore(Str(<<"abc">>)) => Evaluated /\ resp.Score = 0

\* C4: evaluate.py, main.py and index.py (configured) reject a request whose job
\* description or resume is empty with a 4xx error, and do not call the service.
C4_EmptyInputRejected ==
    ( /\ req.handler \in {"evaluate", "main", "index"}
      /\ req.handler = "index" => OPENAI_API_KEY
      /\ IsEmptyText(req.jd) \/ IsEmptyText(req.resume) )
    => resp.status = "error" /\ resp.code \in 400..499 /\ ~called

\* C5: when the service call fails or its output is not JSON, the handler answers with
\* the keyword-overlap result computed from the request texts, never with an error.
C5_FailureFallsBack ==
    ( /\ req.handler \in {"index", "evaluate", "main"}
      /\ called
      /\ req.svc.kind \in {"fail", "nocontent", "empty", "prose", "badjson"} ) =>
        LET J == Range(fallback_skills(Truncate(req.jd).head))
            R == Range(fallback_skills(Truncate(req.resume).head))
        IN  /\ Evaluated
            /\ resp.Score = RoundDiv(H(100) * Cardinality(J \cap R), Max(1, Cardinality(J)))
            /\ Range(StripNonEmpty(Split(resp.SkillsetMatch))) = J \cap R
            /\ Range(StripNonEmpty(Split(resp.MissingSkills))) = J \ R
            /\ resp.Summary # NoSummary

WithRecommendation(obj, r) ==
    [k \in DOMAIN obj \cup {"Recommendation"} |-> IF k = "Recommendation" THEN r ELSE obj[k]]

\* what the handler of the last request answers to the same object with Recommendation r
Reanswer(r) ==
    IF req.handler = "index" THEN Normalize(WithRecommendation(req.svc.obj, r)).resp
    ELSE AnalyzeResumePy_analyze_resume(Json("bare", WithRecommendation(req.svc.obj, r)))

\* C6: in index.py and analyze-resume.py the Recommendation depends on the score
\* alone: two service answers that differ only in Recommendation get the same
\* Recommendation, and "Maybe" with Score 80 gets "Shortlist".
C6_RecommendationFromScoreOnly ==
    (req.handler \in {"index", "analyze-resume"} /\ ServedJson /\ Evaluated) =>
        /\ \A r \in {Str(Maybe), Str(Shortlist), Str(Reject)} :
               Reanswer(r).Recommendation = resp.Recommendation
        /\ (ServedScore(Num(H(80))) /\ Get(req.svc.obj, "Recommendation", Null) = Str(Maybe))
               => resp.Recommendation = Shortlist

----------------------------------------------------------------------------
(* Claims checked under SpecFallback *)

FellBack == req.handler = "index" /\ Evaluated /\ cache # <<>> /\ cache[1].out.kind \in {"none", "empty"}

\* C7: on the fallback path of index.py, with J and R the skills found in the job
\* description and in the resume, matched = J \cap R, missing = J \ R, and Score is
\* the integer round(100 * |matched| / max(1, |J|)), in [0, 100].
C7_FallbackScore ==
    FellBack =>
        LET J == Range(fallback_skills(Truncate(req.jd).head))
            R == Range(fallback_skills(Truncate(req.resume).head))
        IN  /\ Range(StripNonEmpty(Split(resp.SkillsetMatch))) = J \cap R
            /\ Range(StripNonEmpty(Split(resp.MissingSkills))) = J \ R
            /\ resp.Score = H(RoundDiv(100 * Cardinality(J \cap R), Max(1, Cardinality(J))))
            /\ resp.Score \in {H(i) : i \in 0..100}

\* every score analyze_resume can pass to decide_recommendation: the integers 0..100
\* and round(100 * m / n, 2) for 0 <= m <= n <= 15
PassedScores ==
    {H(i) : i \in 0..100}
    \cup {RoundDiv(H(100) * p[1], p[2]) :
              p \in {q \in (0..Len(common_skills)) \X (1..Len(common_skills)) : q[1] <= q[2]}}

\* C10: decide_recommendation is monotone over the scores the handler passes to it:
\* when a score is shortlisted, every higher score is shortlisted too.
C10_DecisionMonotone ==
    (req.handler = "index" /\ resp.Recommendation = Shortlist) =>
        \A d \in decided, s \in PassedScores : d <= s => decide_recommendation(s) = Shortlist

----------------------------------------------------------------------------
(* Claims checked under SpecSkills *)

\* the same list written as one comma-separated str
RECURSIVE CommaJoin(_)
CommaJoin(items) ==
    IF items = <<>> THEN <<>>
    ELSE IF Len(items) = 1 THEN items[1]
    ELSE items[1] \o <<CM>> \o CommaJoin(Tail(items))

\* the trimmed, non-empty skills of a list or of a comma-separated str, in order
Canonical(v) ==
    IF v.t = "list" THEN StripNonEmpty([i \in 1..Len(v.v) |-> v.v[i].v])
    ELSE StripNonEmpty(Split(v.v))

WithSkills(obj, v) ==
    [k \in DOMAIN obj |-> IF k \in {"SkillsetMatch", "MissingSkills"} THEN v ELSE obj[k]]

\* C8: index.py completes normally whether SkillsetMatch / MissingSkills is a list (of
\* str) or a comma-separated str, the skills it returns are the trimmed, non-empty ones in
\* their order, and a list and the same list written as a comma-separated str get the
\* same response.
C8_SkillsCanonical ==
    ( /\ req.handler = "index" /\ called /\ req.svc.kind = "json"
      /\ Has(req.svc.obj, "SkillsetMatch")
      /\ \/ req.svc.obj["SkillsetMatch"].t = "str"
         \/ /\ req.svc.obj["SkillsetMatch"].t = "list"
            /\ \A x \in Range(req.svc.obj["SkillsetMatch"].v) : x.t = "str" ) =>
        LET v == req.svc.obj["SkillsetMatch"]
        IN  /\ Evaluated
            /\ resp.SkillsetMatch = Join(Canonical(v))
            /\ resp.Summary = format_summary_html(Canonical(v), Canonical(v), <<"Good">>)
            /\ v.t = "list" =>
                   Normalize(WithSkills(req.svc.obj,
                                 Str(CommaJoin([i \in 1..Len(v.v) |-> v.v[i].v])))).resp = resp

----------------------------------------------------------------------------
(* Claims checked under SpecCache *)

Keyed == req.handler = "index" /\ OPENAI_API_KEY
LastKey == RequestKey(Data(req.jd, req.resume))

\* C9 as stated: once cached_gpt_evaluate has produced an output for a key, None
\* included, every later request with that key gets the response of the first one and
\* calls the service no more, however many requests with other keys came in between.
C9_CachedForever ==
    (Keyed /\ req.known) => ~called /\ resp = first[LastKey]

\* C9 as amended: ... as long as fewer than maxsize distinct other keys were requested
\* since the key was last requested, every later request with that key gets the
\* response of the request that produced the output and calls the service no more.
C9_CachedWhileRecent ==
    (Keyed /\ req.known /\ req.gap < maxsize) => ~called /\ resp = produced[LastKey]

\* a request answered from a cached None, after a request with another key
C9_Witness ==
    /\ Keyed /\ req.known /\ req.gap >= 1 /\ req.gap < maxsize
    /\ ~called
    /\ cache[1].key = LastKey /\ cache[1].out = None
    /\ req.svc # Fails
    /\ resp = produced[LastKey]

====
